---- MODULE Spec2Model ----
(***************************************************************************)
(* Model of the ansible-mention-bot pipeline: keyword configuration,       *)
(* per-source search (reddit, twitter, bluesky), record normalisation,     *)
(* the bluesky de-duplicator and the orchestrator in mention_bot.py.       *)
(*                                                                         *)
(* Text is a tuple of one-character strings, so that lower-casing,         *)
(* splitting, stripping and substring search are computed, not assumed.    *)
(***************************************************************************)
EXTENDS Integers, Sequences, FiniteSets, TLC

VARIABLES
    called,     \* which operation has been applied ("none" before any)
    input,      \* the argument the operation was applied to
    output,     \* its result
    output2     \* the result of applying it again to its own result

vars == <<called, input, output, output2>>

----------------------------------------------------------------------------
(* Text primitives (Python str methods used by the sources).               *)

\* str.lower() on one character of the model's alphabet
LowerChar(c) ==
    CASE c = "A" -> "a"
      [] c = "B" -> "b"
      [] c = "C" -> "c"
      [] OTHER -> c

\* str.lower()
Lower(s) == [i \in 1..Len(s) |-> LowerChar(s[i])]

\* `sub in s` for two str values; the empty string is in every string
Contains(sub, s) ==
    \E i \in 0..(Len(s) - Len(sub)) : SubSeq(s, i + 1, i + Len(sub)) = sub

\* whitespace test of one character
IsSpaceChar(c) == c \in {" ", "\t", "\n"}

\* str.isspace(): non-empty and all whitespace
IsSpace(s) == Len(s) > 0 /\ \A i \in 1..Len(s) : IsSpaceChar(s[i])

RECURSIVE LStrip(_)
LStrip(s) ==
    IF s # <<>> /\ IsSpaceChar(Head(s)) THEN LStrip(Tail(s)) ELSE s

RECURSIVE RStrip(_)
RStrip(s) ==
    IF s # <<>> /\ IsSpaceChar(s[Len(s)]) THEN RStrip(SubSeq(s, 1, Len(s) - 1)) ELSE s

\* str.strip()
Strip(s) == RStrip(LStrip(s))

\* str.split(','): always at least one piece, '' splits to ['']
RECURSIVE Split(_)
Split(s) ==
    IF \E i \in 1..Len(s) : s[i] = ","
    THEN LET i == CHOOSE k \in 1..Len(s) :
                      s[k] = "," /\ \A j \in 1..(k - 1) : s[j] # ","
         IN  <<SubSeq(s, 1, i - 1)>> \o Split(SubSeq(s, i + 1, Len(s)))
    ELSE <<s>>

\* [k.strip() for k in value.split(',')]
ParseList(value) ==
    LET parts == Split(value) IN [i \in 1..Len(parts) |-> Strip(parts[i])]

----------------------------------------------------------------------------
(* BlueskyMonitor._deduplicate_mentions                                    *)

\* the loop body with a duplicate forgetting the id again
DedupStepForgets(acc, mention) ==
    LET post_id == mention.id IN
    IF post_id # "" /\ post_id \notin acc.seen_ids
    THEN [seen_ids |-> acc.seen_ids \cup {post_id},
          unique_mentions |-> Append(acc.unique_mentions, mention)]
    ELSE [seen_ids |-> acc.seen_ids \ {post_id},
          unique_mentions |-> acc.unique_mentions]

\* the loop body without the membership test on seen_ids
DedupStepKeepsRepeats(acc, mention) ==
    LET post_id == mention.id IN
    IF post_id # ""
    THEN [seen_ids |-> acc.seen_ids \cup {post_id},
          unique_mentions |-> Append(acc.unique_mentions, mention)]
    ELSE acc

\* one iteration of the loop over mentions
DedupStep(acc, mention) ==
    LET post_id == mention.id IN
    IF post_id # "" /\ post_id \notin acc.seen_ids
    THEN [seen_ids |-> acc.seen_ids \cup {post_id},
          unique_mentions |-> Append(acc.unique_mentions, mention)]
    ELSE acc

RECURSIVE DedupLoop(_, _)
DedupLoop(acc, mentions) ==
    IF mentions = <<>> THEN acc
    ELSE DedupLoop(DedupStep(acc, Head(mentions)), Tail(mentions))

deduplicate_mentions(mentions) ==
    DedupLoop([seen_ids |-> {}, unique_mentions |-> <<>>], mentions).unique_mentions

----------------------------------------------------------------------------
(* Optional values: a dict key or attribute that is absent, present but    *)
(* None ("null"), or present with a value.                                 *)

Absent(default) == [st |-> "absent", v |-> default]
Null(default) == [st |-> "null", v |-> default]
Some(x) == [st |-> "ok", v |-> x]

\* dict.get(key, default): the default only when the key is absent
Get(field, default) == IF field.st = "absent" THEN Some(default) ELSE field

\* Python truthiness of an optional int / optional text
IsNone(field) == field.st # "ok"

----------------------------------------------------------------------------
(* Timestamps. A datetime is naive or timezone-aware; hours are integers.  *)

NoTime == [kind |-> "none", t |-> 0]
Naive(t) == [kind |-> "naive", t |-> t]
Aware(t) == [kind |-> "aware", t |-> t]

----------------------------------------------------------------------------
(* _analyze_sentiment (the three copies agree on what is modelled here).   *)
(* Polarity p stands for p / 100000; `scored` is what the TextBlob scorer  *)
(* returns for the text of the record.                                     *)

\* the thresholds taken inclusively
LabelOfInclusive(polarity) ==
    IF polarity >= 10000 THEN "positive"
    ELSE IF polarity <= -10000 THEN "negative"
    ELSE "neutral"

LabelOf(polarity) ==
    IF polarity > 10000 THEN "positive"
    ELSE IF polarity < -10000 THEN "negative"
    ELSE "neutral"

\* the shortcut taken for the empty text only
analyze_sentiment_empty_only(text, scored) ==
    IF text = <<>>
    THEN [polarity |-> 0, label |-> "neutral", scorer_called |-> FALSE]
    ELSE [polarity |-> scored, label |-> LabelOf(scored), scorer_called |-> TRUE]

\* scorer_called: whether TextBlob was given the text
analyze_sentiment(text, scored) ==
    IF text = <<>> \/ IsSpace(text)
    THEN [polarity |-> 0, label |-> "neutral", scorer_called |-> FALSE]
    ELSE [polarity |-> scored, label |-> LabelOf(scored), scorer_called |-> TRUE]

----------------------------------------------------------------------------
(* BlueskyMonitor._extract_post_data                                       *)
(* post_data: text, author (absent | null | dict), likeCount, repostCount, *)
(* replyCount (optional ints), cid, uri (text, "" when absent or None),    *)
(* createdAt, scored.                                                      *)

\* None.get(...) on a null author, None + int on a null like/repost count
BlueskyExtractRaises(post_data) ==
    \/ post_data.author.st = "null"
    \/ Get(post_data.likeCount, 0).st = "null"
    \/ Get(post_data.repostCount, 0).st = "null"

\* a missing like/repost count defaulting to -1
BlueskyScoreDefaultMinusOne(post_data) ==
    Get(post_data.likeCount, -1).v + Get(post_data.repostCount, -1).v

\* the score taken from the like count alone
BlueskyScoreLikesOnly(post_data) ==
    Get(post_data.likeCount, 0).v

BlueskyScore(post_data) ==
    Get(post_data.likeCount, 0).v + Get(post_data.repostCount, 0).v

BlueskyNumComments(post_data) ==
    Get(post_data.replyCount, 0)

BlueskyAuthorHandle(post_data) ==
    IF post_data.author.st = "absent" THEN "unknown"
    ELSE Get(post_data.author.handle, "unknown").v

extract_post_data(post_data, keyword) ==
    LET text == post_data.text
        sentiment == analyze_sentiment(text, post_data.scored)
    IN  [platform |-> "bluesky",
         type |-> "post",
         id |-> IF post_data.cid # "" THEN post_data.cid ELSE post_data.uri,
         content |-> text,
         author |-> BlueskyAuthorHandle(post_data),
         score |-> BlueskyScore(post_data),
         num_comments |-> BlueskyNumComments(post_data),
         created_utc |-> post_data.createdAt,
         keyword_matched |-> keyword,
         sentiment_score |-> sentiment.polarity,
         sentiment_label |-> sentiment.label]

----------------------------------------------------------------------------
(* TwitterMonitor._extract_tweet_data                                      *)
(* tweet: id, text, author_id, public_metrics (null | dict of optional     *)
(* ints), created_at, scored. users_map: function author id -> username.   *)

\* metrics = tweet.public_metrics or {}
TweetMetric(tweet, key) ==
    IF tweet.public_metrics.st = "ok"
    THEN Get(tweet.public_metrics.v[key], 0)
    ELSE Some(0)

\* None + int on a null like/retweet count
TweetExtractRaises(tweet) ==
    \/ TweetMetric(tweet, "like_count").st = "null"
    \/ TweetMetric(tweet, "retweet_count").st = "null"

TweetScore(tweet) ==
    TweetMetric(tweet, "like_count").v + TweetMetric(tweet, "retweet_count").v

TweetUsername(tweet, users_map) ==
    IF tweet.author_id \in DOMAIN users_map
    THEN users_map[tweet.author_id]
    ELSE "user_" \o tweet.author_id

extract_tweet_data(tweet, keyword, users_map) ==
    LET sentiment == analyze_sentiment(tweet.text, tweet.scored)
    IN  [platform |-> "twitter",
         type |-> "tweet",
         id |-> tweet.id,
         content |-> tweet.text,
         author |-> TweetUsername(tweet, users_map),
         score |-> TweetScore(tweet),
         num_comments |-> TweetMetric(tweet, "reply_count"),
         created_utc |-> tweet.created_at,
         keyword_matched |-> keyword,
         sentiment_score |-> sentiment.polarity,
         sentiment_label |-> sentiment.label]

----------------------------------------------------------------------------
(* RedditMonitor._extract_mention_data and _extract_comment_data           *)
(* post: id, title, selftext, author (optional name), score (optional      *)
(* int), num_comments, created_utc (optional hour), scored.                *)
(* comment: id, body, author, score, created_utc, scored.                  *)

\* a missing attribute, or datetime.fromtimestamp(None)
RedditExtractRaises(item) ==
    \/ item.score.st = "absent"
    \/ item.author.st = "absent"
    \/ item.created_utc.st # "ok"

RedditScore(item) == item.score.v

RedditAuthor(item) ==
    IF item.author.st = "ok" THEN item.author.v ELSE "[deleted]"

extract_mention_data(post, keyword) ==
    LET text == post.title \o <<" ">> \o post.selftext
        sentiment == analyze_sentiment(text, post.scored)
    IN  [platform |-> "reddit",
         type |-> "post",
         id |-> post.id,
         content |-> post.selftext,
         author |-> RedditAuthor(post),
         score |-> RedditScore(post),
         num_comments |-> Some(post.num_comments),
         created_utc |-> Naive(post.created_utc.v),
         keyword_matched |-> keyword,
         sentiment_score |-> sentiment.polarity,
         sentiment_label |-> sentiment.label]

extract_comment_data(comment, post, keyword) ==
    LET sentiment == analyze_sentiment(comment.body, comment.scored)
    IN  [platform |-> "reddit",
         type |-> "comment",
         id |-> comment.id,
         content |-> comment.body,
         author |-> RedditAuthor(comment),
         score |-> RedditScore(comment),
         num_comments |-> Some(0),
         created_utc |-> Naive(comment.created_utc.v),
         keyword_matched |-> keyword,
         sentiment_score |-> sentiment.polarity,
         sentiment_label |-> sentiment.label]

----------------------------------------------------------------------------
(* Keyword matching.                                                       *)

Min(a, b) == IF a < b THEN a ELSE b

\* index of the first keyword whose lower-case form is in content, 0 if none
\* (`for keyword in keywords: if keyword.lower() in content: ... break`)
FirstKeywordIn(keywords, content) ==
    IF \E i \in 1..Len(keywords) : Contains(Lower(keywords[i]), content)
    THEN CHOOSE i \in 1..Len(keywords) :
             /\ Contains(Lower(keywords[i]), content)
             /\ \A j \in 1..(i - 1) : ~Contains(Lower(keywords[j]), content)
    ELSE 0

\* TwitterMonitor._find_matching_keyword: the keyword, or None
find_matching_keyword(text, keywords) ==
    LET k == FirstKeywordIn(keywords, Lower(text))
    IN  IF k = 0 THEN Null(<<>>) ELSE Some(keywords[k])

\* `if matched_keyword:` -- None and '' are both falsy
Truthy(matched) == matched.st = "ok" /\ matched.v # <<>>

\* cutoff_time = datetime.now() - timedelta(hours=hours_back)
CutoffTime(now, hours_back) == now - hours_back

----------------------------------------------------------------------------
(* RedditMonitor.search_mentions                                           *)
(* The collaborator's answer for one subreddit: fails ("no", or the        *)
(* listing whose fetch raises), new (posts), hot (posts, each with the     *)
(* comments of its expanded tree). acc = [mentions, raised]: raised is an  *)
(* exception on its way to the except clause of the subreddit loop.        *)

Raise(acc) == [acc EXCEPT !.raised = TRUE]
Emit(acc, mention) == [acc EXCEPT !.mentions = Append(@, mention)]

\* `post_time < cutoff_time`
RedditTooOld(item, cutoff) == item.created_utc.v < cutoff

RedditPostStep(acc, post, ctx) ==
    IF post.created_utc.st # "ok" THEN Raise(acc)
    ELSE IF RedditTooOld(post, ctx.cutoff) THEN acc
    ELSE LET content == Lower(post.title \o <<" ">> \o post.selftext)
             k == FirstKeywordIn(ctx.keywords, content)
         IN  IF k = 0 THEN acc
             ELSE IF RedditExtractRaises(post) THEN Raise(acc)
             ELSE Emit(acc, extract_mention_data(post, ctx.keywords[k]))

RECURSIVE RedditNewLoop(_, _, _)
RedditNewLoop(acc, posts, ctx) ==
    IF posts = <<>> \/ acc.raised THEN acc
    ELSE RedditNewLoop(RedditPostStep(acc, Head(posts), ctx), Tail(posts), ctx)

RedditCommentStep(acc, comment, post, ctx) ==
    IF comment.created_utc.st = "absent" THEN acc
    ELSE IF comment.created_utc.st = "null" THEN Raise(acc)
    ELSE IF RedditTooOld(comment, ctx.cutoff) THEN acc
    ELSE LET k == FirstKeywordIn(ctx.keywords, Lower(comment.body))
         IN  IF k = 0 THEN acc
             ELSE IF RedditExtractRaises(comment) THEN Raise(acc)
             ELSE Emit(acc, extract_comment_data(comment, post, ctx.keywords[k]))

RECURSIVE RedditCommentLoop(_, _, _, _)
RedditCommentLoop(acc, comments, post, ctx) ==
    IF comments = <<>> \/ acc.raised THEN acc
    ELSE RedditCommentLoop(RedditCommentStep(acc, Head(comments), post, ctx),
                           Tail(comments), post, ctx)

\* the parent post's own time check before its comments are read
RedditHotStep(acc, entry, ctx) ==
    IF entry.post.created_utc.st # "ok" THEN Raise(acc)
    ELSE IF RedditTooOld(entry.post, ctx.cutoff) THEN acc
    ELSE RedditCommentLoop(acc,
                           SubSeq(entry.comments, 1, Min(20, Len(entry.comments))),
                           entry.post, ctx)

RECURSIVE RedditHotLoop(_, _, _)
RedditHotLoop(acc, entries, ctx) ==
    IF entries = <<>> \/ acc.raised THEN acc
    ELSE RedditHotLoop(RedditHotStep(acc, Head(entries), ctx), Tail(entries), ctx)

\* one iteration of `for subreddit_name in subreddits`, try/except included
RedditSubreddit(mentions, answer, ctx) ==
    IF answer.fails = "new" THEN mentions
    ELSE LET a == RedditNewLoop([mentions |-> mentions, raised |-> FALSE],
                                answer.new, ctx)
         IN  IF a.raised \/ answer.fails = "hot" THEN a.mentions
             ELSE RedditHotLoop(a, answer.hot, ctx).mentions

RECURSIVE RedditSubredditLoop(_, _, _, _)
RedditSubredditLoop(mentions, i, answers, ctx) ==
    IF i > Len(ctx.subreddits) THEN mentions
    ELSE RedditSubredditLoop(RedditSubreddit(mentions, answers[i], ctx),
                             i + 1, answers, ctx)

reddit_search_mentions(keywords, subreddits, hours_back, now, answers) ==
    RedditSubredditLoop(<<>>, 1, answers,
                        [keywords |-> keywords, subreddits |-> subreddits,
                         cutoff |-> CutoffTime(now, hours_back)])

----------------------------------------------------------------------------
(* TwitterMonitor.search_mentions                                          *)
(* The collaborator's answer: fails, tweets, users (the user data the      *)
(* service returned for the requested author_id expansion, author id ->    *)
(* username), has_includes (whether the object the code holds exposes an   *)
(* `includes` attribute). The code holds Paginator(...).flatten(...), a    *)
(* generator of tweets: it has no such attribute, whatever was returned.   *)

\* users_map = {}; if hasattr(tweets, 'includes') and 'users' in ...: {...}
UsersMap(answer) == IF answer.has_includes THEN answer.users ELSE <<>>

TweetStep(acc, tweet, ctx) ==
    LET matched_keyword == find_matching_keyword(tweet.text, ctx.keywords)
    IN  IF ~Truthy(matched_keyword) THEN acc
        ELSE IF TweetExtractRaises(tweet) THEN Raise(acc)
        ELSE Emit(acc, extract_tweet_data(tweet, matched_keyword.v, ctx.users_map))

RECURSIVE TweetLoop(_, _, _)
TweetLoop(acc, tweets, ctx) ==
    IF tweets = <<>> \/ acc.raised THEN acc
    ELSE TweetLoop(TweetStep(acc, Head(tweets), ctx), Tail(tweets), ctx)

twitter_search_mentions(keywords, hours_back, max_results, answer) ==
    IF answer.fails THEN <<>>
    ELSE TweetLoop([mentions |-> <<>>, raised |-> FALSE],
                   SubSeq(answer.tweets, 1, Min(max_results, Len(answer.tweets))),
                   [keywords |-> keywords, users_map |-> UsersMap(answer)]).mentions

----------------------------------------------------------------------------
(* BlueskyMonitor.search_mentions                                          *)
(* answers[i]: what _search_posts returns for the i-th keyword. In the     *)
(* source _search_posts is a stub for the AT Protocol call; it is taken    *)
(* here as the collaborator boundary, returning any list of post_data.     *)

\* _parse_timestamp then `post_time and post_time < cutoff_time`, where
\* cutoff_time is naive: an aware post_time cannot be compared (TypeError)
BlueskyTimeCheck(post_data, cutoff) ==
    CASE post_data.createdAt.kind = "none" -> "pass"
      [] post_data.createdAt.kind = "aware" -> "raise"
      [] OTHER -> IF post_data.createdAt.t < cutoff THEN "skip" ELSE "pass"

BlueskyPostStep(acc, post_data, keyword, ctx) ==
    LET check == BlueskyTimeCheck(post_data, ctx.cutoff)
    IN  IF check = "raise" THEN Raise(acc)
        ELSE IF check = "skip" THEN acc
        ELSE IF ~Contains(Lower(keyword), Lower(post_data.text)) THEN acc
        ELSE IF BlueskyExtractRaises(post_data) THEN Raise(acc)
        ELSE Emit(acc, extract_post_data(post_data, keyword))

RECURSIVE BlueskyPostLoop(_, _, _, _)
BlueskyPostLoop(acc, posts, keyword, ctx) ==
    IF posts = <<>> \/ acc.raised THEN acc
    ELSE BlueskyPostLoop(BlueskyPostStep(acc, Head(posts), keyword, ctx),
                         Tail(posts), keyword, ctx)

RECURSIVE BlueskyKeywordLoop(_, _, _, _)
BlueskyKeywordLoop(mentions, i, answers, ctx) ==
    IF i > Len(ctx.keywords) THEN mentions
    ELSE BlueskyKeywordLoop(
             BlueskyPostLoop([mentions |-> mentions, raised |-> FALSE],
                             answers[i], ctx.keywords[i], ctx).mentions,
             i + 1, answers, ctx)

\* the mentions found, before de-duplication
BlueskyCandidates(keywords, hours_back, now, answers) ==
    BlueskyKeywordLoop(<<>>, 1, answers,
                       [keywords |-> keywords,
                        cutoff |-> CutoffTime(now, hours_back)])

bluesky_search_mentions(keywords, hours_back, max_results, now, answers) ==
    LET unique_mentions ==
            deduplicate_mentions(BlueskyCandidates(keywords, hours_back, now, answers))
    IN  SubSeq(unique_mentions, 1, Min(max_results, Len(unique_mentions)))

----------------------------------------------------------------------------
(* MentionBot.__init__: the configured lists.                              *)

\* self.keywords / self.subreddits as __init__ computes them
LoadKeywords(env) == ParseList(Get(env, <<"a", "n", "s", "i", "b", "l", "e">>).v)
LoadSubreddits(env) ==
    ParseList(Get(env, <<"a", "n", "s", "i", "b", "l", "e", ",",
                         "d", "e", "v", "o", "p", "s">>).v)

----------------------------------------------------------------------------
(* MentionBot.collect_mentions                                             *)
(* bot: keywords, subreddits, check_interval_hours and, per monitor,       *)
(* whether it was set up. world: the collaborators' answers per source.    *)

collect_mentions(bot, hours_back_arg, now, world) ==
    LET hours_back == IF hours_back_arg.st # "ok" THEN bot.check_interval_hours
                      ELSE hours_back_arg.v
        reddit_mentions ==
            IF bot.reddit_monitor
            THEN reddit_search_mentions(bot.keywords, bot.subreddits,
                                        hours_back, now, world.reddit)
            ELSE <<>>
        twitter_mentions ==
            IF bot.twitter_monitor
            THEN twitter_search_mentions(bot.keywords, hours_back, 100, world.twitter)
            ELSE <<>>
        bluesky_mentions ==
            IF bot.bluesky_monitor
            THEN bluesky_search_mentions(bot.keywords, hours_back, 100, now,
                                         world.bluesky)
            ELSE <<>>
    IN  reddit_mentions \o twitter_mentions \o bluesky_mentions

----------------------------------------------------------------------------
(* MentionBot.get_top_mentions                                             *)
(* sorted(..., reverse=True) is stable: mentions comparing equal keep      *)
(* their original order.                                                   *)

\* a mention placed in front of those of equal score
SortInsertBeforeEqual(result, mention) ==
    SelectSeq(result, LAMBDA x : x.score > mention.score)
        \o <<mention>>
        \o SelectSeq(result, LAMBDA x : x.score <= mention.score)

\* the next mention placed behind every mention of greater or equal score
SortInsert(result, mention) ==
    SelectSeq(result, LAMBDA x : x.score >= mention.score)
        \o <<mention>>
        \o SelectSeq(result, LAMBDA x : x.score < mention.score)

RECURSIVE SortedByScore(_, _)
SortedByScore(result, mentions) ==
    IF mentions = <<>> THEN result
    ELSE SortedByScore(SortInsert(result, Head(mentions)), Tail(mentions))

\* s[:limit]
SlicePrefix(s, limit) ==
    IF limit >= 0 THEN SubSeq(s, 1, Min(limit, Len(s)))
    ELSE SubSeq(s, 1, IF Len(s) + limit > 0 THEN Len(s) + limit ELSE 0)

get_top_mentions(mentions, limit) ==
    SlicePrefix(SortedByScore(<<>>, mentions), limit)

----------------------------------------------------------------------------
(* MentionBot.analyze_sentiment_summary                                    *)
(* A quotient is kept exact as [num, den]. A key the returned dict does    *)
(* not have is Absent.                                                     *)

Quotient(num, den) == [num |-> num, den |-> den]

\* the first mention of the list left out of the count
CountLabelSkipsFirst(mentions, label) ==
    Len(SelectSeq(Tail(mentions), LAMBDA x : x.sentiment_label = label))

CountLabel(mentions, label) ==
    Len(SelectSeq(mentions, LAMBDA x : x.sentiment_label = label))

RECURSIVE TotalScore(_)
TotalScore(mentions) ==
    IF mentions = <<>> THEN 0
    ELSE Head(mentions).sentiment_score + TotalScore(Tail(mentions))

analyze_sentiment_summary(mentions) ==
    IF mentions = <<>>
    THEN [total |-> 0, positive |-> 0, negative |-> 0, neutral |-> 0,
          average_sentiment |-> Absent(Quotient(0, 1)),
          positive_percentage |-> Absent(Quotient(0, 1)),
          negative_percentage |-> Absent(Quotient(0, 1))]
    ELSE [total |-> Len(mentions),
          positive |-> CountLabel(mentions, "positive"),
          negative |-> CountLabel(mentions, "negative"),
          neutral |-> CountLabel(mentions, "neutral"),
          average_sentiment |-> Some(Quotient(TotalScore(mentions), Len(mentions))),
          positive_percentage |->
              Some(Quotient(CountLabel(mentions, "positive") * 100, Len(mentions))),
          negative_percentage |->
              Some(Quotient(CountLabel(mentions, "negative") * 100, Len(mentions)))]

----------------------------------------------------------------------------
(* MentionBot.__init__, generate_report, run_check and main                *)
(* env: the environment (.env included): KEYWORDS, SUBREDDITS,             *)
(* CHECK_INTERVAL_HOURS (Null when it is not an integer) and, per monitor, *)
(* "missing" credentials, "ok", or "fails" when the monitor's constructor  *)
(* raises. A result [raised, ...] with raised = TRUE is an exception on    *)
(* its way to the caller.                                                  *)

\* _setup_*_monitor: the attribute stays None without credentials and when
\* the constructor raises
SetupMonitor(state) == state = "ok"

\* int(os.getenv('CHECK_INTERVAL_HOURS', '4')) raising ValueError
InitRaises(env) == env.check_interval_hours.st = "null"

MentionBotInit(env) ==
    [keywords |-> LoadKeywords(env.keywords),
     subreddits |-> LoadSubreddits(env.subreddits),
     check_interval_hours |-> Get(env.check_interval_hours, 4).v,
     reddit_monitor |-> SetupMonitor(env.reddit),
     twitter_monitor |-> SetupMonitor(env.twitter),
     bluesky_monitor |-> SetupMonitor(env.bluesky)]

\* the Neutral line of the report: 100 - positive_percentage - negative_percentage
ReportNeutralPercentage(sentiment_summary) ==
    Quotient(100 * sentiment_summary.total
                 - sentiment_summary.positive_percentage.v.num
                 - sentiment_summary.negative_percentage.v.num,
             sentiment_summary.total)

generate_report(mentions) ==
    IF mentions = <<>>
    THEN [empty |-> TRUE]
    ELSE [empty |-> FALSE, summary |-> analyze_sentiment_summary(mentions),
          neutral_percentage |->
              ReportNeutralPercentage(analyze_sentiment_summary(mentions)),
          top |-> get_top_mentions(mentions, 5)]

\* save_fails: writing the result files raises
run_check(bot, hours_back, save_results, now, world, save_fails) ==
    LET mentions == collect_mentions(bot, hours_back, now, world)
        saving == save_results /\ mentions # <<>>
    IN  [raised |-> saving /\ save_fails,
         mentions |-> mentions,
         summary |-> analyze_sentiment_summary(mentions),
         report |-> generate_report(mentions),
         saved |-> saving /\ ~save_fails]

\* `except Exception` turning every exception into exit(2), SystemExit too
ExceptClauseCatchesExit(outcome) == 2

\* `except Exception` does not catch the SystemExit that exit() raises
ExceptClause(outcome) ==
    IF outcome.exception = "Exception" THEN 2 ELSE outcome.code

main(env, args, now, world, save_fails) ==
    LET results == run_check(MentionBotInit(env), args.hours, ~args.no_save,
                             now, world, save_fails)
        outcome ==
            IF InitRaises(env) \/ results.raised
            THEN [exception |-> "Exception", code |-> 0]
            ELSE [exception |-> "SystemExit",
                  code |-> IF results.summary.negative > results.summary.positive
                           THEN 1 ELSE 0]
    IN  [exit_code |-> ExceptClause(outcome),
         completed |-> ~InitRaises(env) /\ ~results.raised,
         results |-> IF InitRaises(env) THEN <<>> ELSE results]

----------------------------------------------------------------------------
(* Bounded inputs.                                                         *)

MaxLen == 3

RECURSIVE SeqsUpTo(_, _)
SeqsUpTo(S, n) ==
    IF n = 0 THEN {<<>>}
    ELSE LET shorter == SeqsUpTo(S, n - 1)
         IN  shorter \cup {Append(s, x) : s \in shorter, x \in S}

DedupIds == {"", "c1", "c2"}
DedupContents == {<<"a">>, <<"b">>}
DedupMentions == [id : DedupIds, content : DedupContents]

MaxCount == 3

Counts == -1..MaxCount
OptCounts == {Absent(0), Null(0)} \cup {Some(n) : n \in Counts}
Scores == {-10001, -10000, 0, 10000, 10001}

NormTexts == {<<"a">>, <<" ">>}
NormKeywords == {<<"a">>}

BlueskyAuthors ==
    {[st |-> "absent", handle |-> Absent("")],
     [st |-> "null", handle |-> Absent("")],
     [st |-> "ok", handle |-> Absent("")],
     [st |-> "ok", handle |-> Some("alice")]}

NormBlueskyPosts ==
    [text : NormTexts, author : BlueskyAuthors,
     likeCount : OptCounts, repostCount : OptCounts, replyCount : OptCounts,
     cid : {"", "c1"}, uri : {"", "u1"},
     createdAt : {NoTime, Aware(9)}, scored : {-10001, 0, 10001}]

MetricKeys == {"like_count", "retweet_count", "reply_count"}

NormTweets ==
    [id : {"101"}, text : NormTexts, author_id : {"7"},
     public_metrics : {Null(<<>>)} \cup {Some(m) : m \in [MetricKeys -> OptCounts]},
     created_at : {NoTime, Aware(9)}, scored : {-10001, 0, 10001}]

NormUsersMaps == {<<>>, [a \in {"7"} |-> "bob"]}

OptAuthors == {Absent(""), Null(""), Some("carol")}
OptScores == {Absent(0)} \cup {Some(n) : n \in Counts}
OptHours == {Absent(0), Null(0), Some(9)}

NormRedditPosts ==
    [id : {"r1"}, title : NormTexts, selftext : {<<>>, <<"a">>},
     author : OptAuthors, score : OptScores, num_comments : {0, 2},
     created_utc : OptHours, scored : Scores]

NormRedditComments ==
    [id : {"k1"}, body : NormTexts,
     author : OptAuthors, score : OptScores,
     created_utc : OptHours, scored : Scores]

MaxItems == 2

\* max_results=100 as collect_mentions passes it
max_results == 100

\* values of the KEYWORDS and SUBREDDITS environment variables
KeywordEnvs ==
    {Absent(<<>>),
     Some(<<"a">>),
     Some(<<"a", ",", "b">>),
     Some(<<"b", ",", " ", "A">>),
     Some(<<"a", ",">>),
     Some(<<",", "a">>),
     Some(<<>>)}
SubredditEnvs == {Absent(<<>>), Some(<<"x">>), Some(<<"x", ",", "x">>)}
HoursBackArgs == {1, 4}
Clock == {10}

SearchTexts == {<<"A", "n", "s", "i", "b", "l", "e">>, <<"c">>}

SearchPosts ==
    [id : {"r1", "r2"}, title : SearchTexts, selftext : {<<>>},
     author : {Null(""), Some("carol")}, score : {Some(1)}, num_comments : {0},
     created_utc : {Null(0), Some(8), Some(9)}, scored : {0}]

SearchHotPosts ==
    [id : {"r3"}, title : {<<"c">>}, selftext : {<<>>},
     author : {Some("carol")}, score : {Some(1)}, num_comments : {0},
     created_utc : {Null(0), Some(8), Some(9)}, scored : {0}]

SearchComments ==
    [id : {"k1"}, body : SearchTexts,
     author : {Some("dave")}, score : {Some(1)},
     created_utc : {Absent(0), Null(0), Some(8), Some(9)}, scored : {0}]

RedditItems ==
    [sub : {1, 2}, kind : {"post"}, rec : SearchPosts]
        \cup [sub : {1, 2}, kind : {"hot"}, rec : SearchHotPosts]
        \cup [sub : {1, 2}, kind : {"comment"}, rec : SearchComments]

RedditFailures == {<<"no", "no">>, <<"new", "no">>, <<"hot", "no">>}

Recs(items) == [j \in 1..Len(items) |-> items[j].rec]

\* the listings of subreddit i: its new posts, and its hot post (if any)
\* with the comments
RedditAnswerOf(items, fails, i) ==
    LET of(kind) == Recs(SelectSeq(items, LAMBDA x : x.sub = i /\ x.kind = kind))
    IN  [fails |-> fails[i],
         new |-> of("post"),
         hot |-> IF of("hot") = <<>> THEN <<>>
                 ELSE <<[post |-> Head(of("hot")), comments |-> of("comment")]>>]

SearchTweets ==
    [id : {"101", "102"}, text : SearchTexts, author_id : {"7"},
     public_metrics : {Null(<<>>), Some([k \in MetricKeys |-> Some(1)])},
     created_at : {NoTime, Aware(9)}, scored : {0}]

SearchBlueskyPosts ==
    [text : SearchTexts, author : {[st |-> "ok", handle |-> Some("alice")]},
     likeCount : {Some(1)}, repostCount : {Absent(0)}, replyCount : {Absent(0)},
     cid : {"", "c1", "c2"}, uri : {""},
     createdAt : {NoTime, Naive(8), Naive(9), Aware(9)}, scored : {0}]

BlueskyItems == [kw : {1, 2}, rec : SearchBlueskyPosts]

BlueskyAnswerOf(items, i) == Recs(SelectSeq(items, LAMBDA x : x.kw = i))

\* subreddit(name) answers by name: a name configured twice is read twice
FirstWithName(subreddits, i) ==
    IF i > Len(subreddits) THEN i
    ELSE CHOOSE j \in 1..i :
             /\ subreddits[j] = subreddits[i]
             /\ \A k \in 1..(j - 1) : subreddits[k] # subreddits[i]

RedditWorld(items, fails, subreddits) ==
    [i \in 1..2 |-> RedditAnswerOf(items, fails, FirstWithName(subreddits, i))]

\* a post, comment or tweet has one id of its own; one bluesky search does
\* not return the same post twice
RedditIdsApart(items) ==
    \A p, q \in 1..Len(items) :
        (p < q /\ items[p].kind = items[q].kind) => items[p].rec.id # items[q].rec.id

TweetIdsApart(tweets) ==
    \A p, q \in 1..Len(tweets) : p < q => tweets[p].id # tweets[q].id

BlueskyIdsApart(items) ==
    \A p, q \in 1..Len(items) :
        (p < q /\ items[p].kw = items[q].kw /\ items[p].rec.cid # "")
            => items[p].rec.cid # items[q].rec.cid

\* records for one collect_mentions run, all within the window
CollectText == <<"A", "n", "s", "i", "b", "l", "e">>

CollectRedditItems ==
    {x \in RedditItems :
        /\ x.rec.created_utc = Some(9)
        /\ x.kind = "post" => (x.rec.title = CollectText /\ x.rec.id = "r1")
        /\ x.kind = "comment" => x.rec.body = CollectText}

CollectTweets ==
    {t \in SearchTweets : t.text = CollectText /\ t.created_at = Aware(9)
                              /\ t.public_metrics.st = "null"}

CollectBlueskyItems ==
    {x \in BlueskyItems : x.rec.text = CollectText /\ x.rec.cid # ""
                              /\ x.rec.createdAt \in {NoTime, Naive(9)}}

CollectItems ==
    [src : {"reddit"}, item : CollectRedditItems]
        \cup [src : {"twitter"}, item : CollectTweets]
        \cup [src : {"bluesky"}, item : CollectBlueskyItems]

ItemsOf(items, src) ==
    LET mine == SelectSeq(items, LAMBDA x : x.src = src)
    IN  [j \in 1..Len(mine) |-> mine[j].item]

----------------------------------------------------------------------------
(* The de-duplicator applied to a list, then to its own result.            *)

InitDedup ==
    /\ called = "none"
    /\ input \in SeqsUpTo(DedupMentions, MaxLen)
    /\ output = <<>>
    /\ output2 = <<>>

Deduplicate ==
    /\ called = "none"
    /\ output' = deduplicate_mentions(input)
    /\ called' = "dedup"
    /\ UNCHANGED <<input, output2>>

DeduplicateAgain ==
    /\ called = "dedup"
    /\ output2' = deduplicate_mentions(output)
    /\ called' = "dedup2"
    /\ UNCHANGED <<input, output>>

NextDedup == Deduplicate \/ DeduplicateAgain

SpecDedup == InitDedup /\ [][NextDedup]_vars

----------------------------------------------------------------------------
(* The record normalisers applied to one raw record.                       *)

InitNorm ==
    /\ called = "none"
    /\ \/ \E r \in NormBlueskyPosts, k \in NormKeywords :
              input = [src |-> "bluesky", rec |-> r, keyword |-> k]
       \/ \E r \in NormTweets, k \in NormKeywords, u \in NormUsersMaps :
              input = [src |-> "twitter", rec |-> r, keyword |-> k, users_map |-> u]
       \/ \E r \in NormRedditPosts, k \in NormKeywords :
              input = [src |-> "reddit_post", rec |-> r, keyword |-> k]
       \/ \E r \in NormRedditComments, q \in NormRedditPosts, k \in NormKeywords :
              /\ q.author = Null("") /\ q.selftext = <<>> /\ q.scored = 0
              /\ q.score = Some(0) /\ q.num_comments = 0 /\ q.created_utc = Some(9)
              /\ input = [src |-> "reddit_comment", rec |-> r, post |-> q, keyword |-> k]
    /\ output = <<>>
    /\ output2 = <<>>

Normalized(raises, mention) ==
    /\ called = "none"
    /\ called' = IF raises THEN "raised" ELSE "normalized"
    /\ output' = IF raises THEN <<>> ELSE mention
    /\ UNCHANGED <<input, output2>>

NormalizeBluesky ==
    /\ input.src = "bluesky"
    /\ Normalized(BlueskyExtractRaises(input.rec),
                  extract_post_data(input.rec, input.keyword))

NormalizeTweet ==
    /\ input.src = "twitter"
    /\ Normalized(TweetExtractRaises(input.rec),
                  extract_tweet_data(input.rec, input.keyword, input.users_map))

NormalizeRedditPost ==
    /\ input.src = "reddit_post"
    /\ Normalized(RedditExtractRaises(input.rec),
                  extract_mention_data(input.rec, input.keyword))

NormalizeRedditComment ==
    /\ input.src = "reddit_comment"
    /\ Normalized(RedditExtractRaises(input.rec),
                  extract_comment_data(input.rec, input.post, input.keyword))

NextNorm ==
    \/ NormalizeBluesky
    \/ NormalizeTweet
    \/ NormalizeRedditPost
    \/ NormalizeRedditComment

SpecNorm == InitNorm /\ [][NextNorm]_vars

----------------------------------------------------------------------------
(* One search_mentions call of one monitor, on the configuration           *)
(* MentionBot.__init__ loads and the answers of the collaborator.          *)

InitSearch ==
    /\ called = "none"
    /\ \E kenv \in KeywordEnvs, h \in HoursBackArgs, n \in Clock :
         LET base == [keywords_env |-> kenv, keywords |-> LoadKeywords(kenv),
                      hours_back |-> h, now |-> n]
         IN
         \/ \E items \in SeqsUpTo(BlueskyItems, MaxItems) :
              /\ BlueskyIdsApart(items)
              /\ input = [src |-> "bluesky", config |-> base,
                          answers |-> [i \in 1..2 |-> BlueskyAnswerOf(items, i)]]
         \/ \E senv \in SubredditEnvs, items \in SeqsUpTo(RedditItems, MaxItems),
               fails \in RedditFailures :
              /\ RedditIdsApart(items)
              /\ input = [src |-> "reddit", config |-> base,
                          subreddits |-> LoadSubreddits(senv),
                          answers |-> RedditWorld(items, fails, LoadSubreddits(senv))]
         \/ \E tweets \in SeqsUpTo(SearchTweets, MaxItems), f \in BOOLEAN,
               u \in NormUsersMaps :
              /\ TweetIdsApart(tweets)
              /\ \A j \in 1..Len(tweets) :
                     tweets[j].created_at.kind = "aware"
                         => tweets[j].created_at.t >= CutoffTime(n, h)
              /\ input = [src |-> "twitter", config |-> base,
                          answers |-> [fails |-> f, tweets |-> tweets, users |-> u,
                                      has_includes |-> FALSE]]
    /\ output = <<>>
    /\ output2 = <<>>

Searched(mentions) ==
    /\ called = "none"
    /\ called' = input.src
    /\ output' = mentions
    /\ UNCHANGED <<input, output2>>

RedditSearch ==
    /\ input.src = "reddit"
    /\ Searched(reddit_search_mentions(input.config.keywords, input.subreddits,
                                       input.config.hours_back, input.config.now,
                                       input.answers))

TwitterSearch ==
    /\ input.src = "twitter"
    /\ Searched(twitter_search_mentions(input.config.keywords,
                                        input.config.hours_back,
                                        max_results, input.answers))

BlueskySearch ==
    /\ input.src = "bluesky"
    /\ Searched(bluesky_search_mentions(input.config.keywords,
                                        input.config.hours_back,
                                        max_results, input.config.now,
                                        input.answers))

NextSearch == RedditSearch \/ TwitterSearch \/ BlueskySearch

SpecSearch == InitSearch /\ [][NextSearch]_vars

----------------------------------------------------------------------------
(* One collect_mentions call of a bot with any subset of the monitors      *)
(* set up.                                                                 *)

InitCollect ==
    /\ called = "none"
    /\ \E kenv \in KeywordEnvs, senv \in SubredditEnvs,
          h \in {Null(0)} \cup {Some(x) : x \in HoursBackArgs}, n \in Clock,
          r \in BOOLEAN, t \in BOOLEAN, b \in BOOLEAN,
          items \in SeqsUpTo(CollectItems, MaxItems) :
         /\ RedditIdsApart(ItemsOf(items, "reddit"))
         /\ TweetIdsApart(ItemsOf(items, "twitter"))
         /\ BlueskyIdsApart(ItemsOf(items, "bluesky"))
         /\ input = [src |-> "all",
                     bot |-> [keywords |-> LoadKeywords(kenv),
                              subreddits |-> LoadSubreddits(senv),
                              check_interval_hours |-> 4,
                              reddit_monitor |-> r,
                              twitter_monitor |-> t,
                              bluesky_monitor |-> b],
                     hours_back |-> h,
                     now |-> n,
                     world |-> [reddit |-> RedditWorld(ItemsOf(items, "reddit"),
                                                       <<"no", "no">>,
                                                       LoadSubreddits(senv)),
                                twitter |-> [fails |-> FALSE,
                                             tweets |-> ItemsOf(items, "twitter"),
                                             users |-> <<>>,
                                             has_includes |-> FALSE],
                                bluesky |-> [i \in 1..2 |->
                                    BlueskyAnswerOf(ItemsOf(items, "bluesky"), i)]]]
    /\ output = <<>>
    /\ output2 = <<>>

CollectMentions ==
    /\ called = "none"
    /\ called' = "collected"
    /\ output' = collect_mentions(input.bot, input.hours_back, input.now, input.world)
    /\ UNCHANGED <<input, output2>>

NextCollect == CollectMentions

SpecCollect == InitCollect /\ [][NextCollect]_vars

----------------------------------------------------------------------------
(* _analyze_sentiment of each monitor applied to one text; scored is the   *)
(* polarity TextBlob gives for it.                                         *)

SentimentTexts ==
    {<<>>, <<" ">>, <<" ", "\t">>, <<"\n">>, <<"a">>, <<" ", "a">>, <<"a", " ">>}

SentimentPolarities ==
    {-100000, -10001, -10000, -9999, 0, 9999, 10000, 10001, 100000}

InitSentiment ==
    /\ called = "none"
    /\ \E m \in {"reddit", "twitter", "bluesky"}, text \in SentimentTexts,
          p \in SentimentPolarities :
         input = [src |-> m, text |-> text, scored |-> p]
    /\ output = <<>>
    /\ output2 = <<>>

Analyzed(sentiment) ==
    /\ called = "none"
    /\ called' = "analyzed"
    /\ output' = sentiment
    /\ UNCHANGED <<input, output2>>

AnalyzeReddit ==
    /\ input.src = "reddit"
    /\ Analyzed(analyze_sentiment(input.text, input.scored))

AnalyzeTwitter ==
    /\ input.src = "twitter"
    /\ Analyzed(analyze_sentiment(input.text, input.scored))

AnalyzeBluesky ==
    /\ input.src = "bluesky"
    /\ Analyzed(analyze_sentiment(input.text, input.scored))

NextSentiment == AnalyzeReddit \/ AnalyzeTwitter \/ AnalyzeBluesky

SpecSentiment == InitSentiment /\ [][NextSentiment]_vars

----------------------------------------------------------------------------
(* get_top_mentions applied to a list of mentions and a limit.             *)

TopMentions == [id : {"m1", "m2", "m3"}, score : {-1, 0, 2}]

InitTop ==
    /\ called = "none"
    /\ \E mentions \in SeqsUpTo(TopMentions, MaxLen), limit \in -1..(MaxLen + 1) :
         input = [mentions |-> mentions, limit |-> limit]
    /\ output = <<>>
    /\ output2 = <<>>

GetTopMentions ==
    /\ called = "none"
    /\ called' = "ranked"
    /\ output' = get_top_mentions(input.mentions, input.limit)
    /\ UNCHANGED <<input, output2>>

NextTop == GetTopMentions

SpecTop == InitTop /\ [][NextTop]_vars

----------------------------------------------------------------------------
(* analyze_sentiment_summary applied to a list of mentions.                *)

SummaryMentions ==
    {[sentiment_score |-> p, sentiment_label |-> LabelOf(p)] :
        p \in {-50000, -10000, 0, 10000, 50000}}

InitSummary ==
    /\ called = "none"
    /\ input \in SeqsUpTo(SummaryMentions, MaxLen)
    /\ output = <<>>
    /\ output2 = <<>>

Summarize ==
    /\ called = "none"
    /\ called' = "summarized"
    /\ output' = analyze_sentiment_summary(input)
    /\ UNCHANGED <<input, output2>>

NextSummary == Summarize

SpecSummary == InitSummary /\ [][NextSummary]_vars

----------------------------------------------------------------------------
(* One run of main.                                                        *)

MainTweets ==
    [id : {"101", "102"}, text : {CollectText}, author_id : {"7"},
     public_metrics : {Null(<<>>)}, created_at : {Aware(9)},
     scored : {-50000, 0, 50000}]

MainItems ==
    [src : {"reddit"},
     item : {x \in CollectRedditItems : x.sub = 1 /\ x.kind = "post"}]
        \cup [src : {"twitter"}, item : MainTweets]
        \cup [src : {"bluesky"},
              item : {x \in CollectBlueskyItems :
                         x.kw = 1 /\ x.rec.cid = "c1" /\ x.rec.createdAt = NoTime}]

MonitorStates == {"missing", "ok", "fails"}

InitMain ==
    /\ called = "none"
    /\ \E r \in MonitorStates, t \in MonitorStates, b \in MonitorStates,
          c \in {Absent(0), Null(0)}, h \in {Null(0), Some(1)},
          ns \in BOOLEAN, sf \in BOOLEAN,
          items \in SeqsUpTo(MainItems, MaxItems) :
         /\ RedditIdsApart(ItemsOf(items, "reddit"))
         /\ TweetIdsApart(ItemsOf(items, "twitter"))
         /\ BlueskyIdsApart(ItemsOf(items, "bluesky"))
         /\ input = [env |-> [keywords |-> Absent(<<>>),
                              subreddits |-> Absent(<<>>),
                              check_interval_hours |-> c,
                              reddit |-> r, twitter |-> t, bluesky |-> b],
                     args |-> [hours |-> h, no_save |-> ns],
                     now |-> 10,
                     save_fails |-> sf,
                     world |-> [reddit |-> RedditWorld(ItemsOf(items, "reddit"),
                                                       <<"no", "no">>,
                                                       LoadSubreddits(Absent(<<>>))),
                                twitter |-> [fails |-> FALSE,
                                             tweets |-> ItemsOf(items, "twitter"),
                                             users |-> <<>>,
                                             has_includes |-> FALSE],
                                bluesky |-> [i \in 1..2 |->
                                    BlueskyAnswerOf(ItemsOf(items, "bluesky"), i)]]]
    /\ output = <<>>
    /\ output2 = <<>>

Main ==
    /\ called = "none"
    /\ called' = "exited"
    /\ output' = main(input.env, input.args, input.now, input.world, input.save_fails)
    /\ UNCHANGED <<input, output2>>

NextMain == Main

SpecMain == InitMain /\ [][NextMain]_vars

----------------------------------------------------------------------------
(* collect_mentions unit by unit: one step per subreddit, per twitter      *)
(* query and per bluesky keyword.                                          *)
(* called: where control is ("none", then the source being collected,      *)
(* then "collected"). output: all_mentions, the mentions list of the       *)
(* monitor at work, and i, the index of its next unit. output2: the units  *)
(* attempted so far, in order.                                             *)

\* a failure ending the loop over the units
AfterUnitAbort(i, failed) == IF failed THEN i + 2 ELSE i + 1

\* `except Exception ...: continue`: the next unit, failed or not
AfterUnit(i, failed) == i + 1

UnitCtx ==
    [keywords |-> input.bot.keywords,
     subreddits |-> input.bot.subreddits,
     users_map |-> UsersMap(input.world.twitter),
     cutoff |-> CutoffTime(input.now, input.bot.check_interval_hours)]

\* whether an exception reaches the except clause of subreddit unit i
RedditUnitFails(answer) ==
    \/ answer.fails # "no"
    \/ LET a == RedditNewLoop([mentions |-> <<>>, raised |-> FALSE], answer.new, UnitCtx)
       IN  a.raised \/ RedditHotLoop(a, answer.hot, UnitCtx).raised

TwitterUnitFails(answer) ==
    \/ answer.fails
    \/ TweetLoop([mentions |-> <<>>, raised |-> FALSE], answer.tweets, UnitCtx).raised

BlueskyUnitFails(i) ==
    BlueskyPostLoop([mentions |-> <<>>, raised |-> FALSE],
                    input.world.bluesky[i], input.bot.keywords[i], UnitCtx).raised

UnitItems ==
    [src : {"reddit"},
     item : {x \in RedditItems :
                /\ x.kind = "post"
                /\ x.rec.title = CollectText
                /\ x.rec.created_utc \in {Null(0), Some(9)}}]
        \cup [src : {"twitter"}, item : CollectTweets]
        \cup [src : {"bluesky"},
              item : {x \in BlueskyItems :
                         /\ x.rec.text = CollectText /\ x.rec.cid # ""
                         /\ x.rec.createdAt \in {Naive(9), Aware(9)}}]

InitUnits ==
    /\ called = "none"
    /\ \E kenv \in {Absent(<<>>), Some(<<"a", ",", "b">>)},
          senv \in {Absent(<<>>), Some(<<"x">>)},
          r \in BOOLEAN, t \in BOOLEAN, b \in BOOLEAN,
          fails \in RedditFailures, tf \in BOOLEAN,
          items \in SeqsUpTo(UnitItems, MaxItems) :
         /\ RedditIdsApart(ItemsOf(items, "reddit"))
         /\ TweetIdsApart(ItemsOf(items, "twitter"))
         /\ BlueskyIdsApart(ItemsOf(items, "bluesky"))
         /\ input = [bot |-> [keywords |-> LoadKeywords(kenv),
                              subreddits |-> LoadSubreddits(senv),
                              check_interval_hours |-> 4,
                              reddit_monitor |-> r,
                              twitter_monitor |-> t,
                              bluesky_monitor |-> b],
                     hours_back |-> Null(0),
                     now |-> 10,
                     world |-> [reddit |-> RedditWorld(ItemsOf(items, "reddit"),
                                                       fails, LoadSubreddits(senv)),
                                twitter |-> [fails |-> tf,
                                             tweets |-> ItemsOf(items, "twitter"),
                                             users |-> <<>>,
                                             has_includes |-> FALSE],
                                bluesky |-> [i \in 1..2 |->
                                    BlueskyAnswerOf(ItemsOf(items, "bluesky"), i)]]]
    /\ output = [all_mentions |-> <<>>, mentions |-> <<>>, i |-> 1]
    /\ output2 = <<>>

Attempted(src) == Append(output2, [src |-> src, unit |-> output.i])

BeginCollect ==
    /\ called = "none"
    /\ called' = "reddit"
    /\ UNCHANGED <<input, output, output2>>

RedditUnit ==
    /\ called = "reddit"
    /\ input.bot.reddit_monitor
    /\ output.i <= Len(input.bot.subreddits)
    /\ output' = [output EXCEPT
                    !.mentions = RedditSubreddit(@, input.world.reddit[output.i], UnitCtx),
                    !.i = AfterUnit(@, RedditUnitFails(input.world.reddit[output.i]))]
    /\ output2' = Attempted("reddit")
    /\ UNCHANGED <<called, input>>

RedditDone ==
    /\ called = "reddit"
    /\ ~input.bot.reddit_monitor \/ output.i > Len(input.bot.subreddits)
    /\ called' = "twitter"
    /\ output' = [all_mentions |-> output.all_mentions \o output.mentions,
                  mentions |-> <<>>, i |-> 1]
    /\ UNCHANGED <<input, output2>>

TwitterUnit ==
    /\ called = "twitter"
    /\ input.bot.twitter_monitor
    /\ output.i = 1
    /\ output' = [output EXCEPT
                    !.mentions = twitter_search_mentions(input.bot.keywords,
                                     input.bot.check_interval_hours, 100,
                                     input.world.twitter),
                    !.i = AfterUnit(@, TwitterUnitFails(input.world.twitter))]
    /\ output2' = Attempted("twitter")
    /\ UNCHANGED <<called, input>>

TwitterDone ==
    /\ called = "twitter"
    /\ ~input.bot.twitter_monitor \/ output.i > 1
    /\ called' = "bluesky"
    /\ output' = [all_mentions |-> output.all_mentions \o output.mentions,
                  mentions |-> <<>>, i |-> 1]
    /\ UNCHANGED <<input, output2>>

BlueskyUnit ==
    /\ called = "bluesky"
    /\ input.bot.bluesky_monitor
    /\ output.i <= Len(input.bot.keywords)
    /\ output' = [output EXCEPT
                    !.mentions = BlueskyPostLoop([mentions |-> @, raised |-> FALSE],
                                     input.world.bluesky[output.i],
                                     input.bot.keywords[output.i], UnitCtx).mentions,
                    !.i = AfterUnit(@, BlueskyUnitFails(output.i))]
    /\ output2' = Attempted("bluesky")
    /\ UNCHANGED <<called, input>>

BlueskyDone ==
    /\ called = "bluesky"
    /\ ~input.bot.bluesky_monitor \/ output.i > Len(input.bot.keywords)
    /\ called' = "collected"
    /\ output' = [all_mentions |->
                      output.all_mentions
                          \o SlicePrefix(deduplicate_mentions(output.mentions), 100),
                  mentions |-> <<>>, i |-> 1]
    /\ UNCHANGED <<input, output2>>

NextUnits ==
    \/ BeginCollect
    \/ RedditUnit
    \/ RedditDone
    \/ TwitterUnit
    \/ TwitterDone
    \/ BlueskyUnit
    \/ BlueskyDone

SpecUnits == InitUnits /\ [][NextUnits]_vars

----------------------------------------------------------------------------
(* Helpers for stating properties of lists of mentions.                    *)

\* the elements of s at the positions in I, in ascending position order
RECURSIVE AtPositions(_, _, _)
AtPositions(s, I, from) ==
    IF from > Len(s) THEN <<>>
    ELSE (IF from \in I THEN <<s[from]>> ELSE <<>>) \o AtPositions(s, I, from + 1)

\* positions holding the first occurrence of a non-empty id
FirstOccurrencePositions(s) ==
    {i \in 1..Len(s) : s[i].id # "" /\ \A j \in 1..(i - 1) : s[j].id # s[i].id}

NonEmptyIdPositions(s) == {i \in 1..Len(s) : s[i].id # ""}
EmptyIdPositions(s) == {i \in 1..Len(s) : s[i].id = ""}

HasRepeatedId(s) ==
    \E i, j \in 1..Len(s) : i < j /\ s[i].id # "" /\ s[i].id = s[j].id

----------------------------------------------------------------------------
(* C1: the de-duplicator keeps, of the mentions with a non-empty id,       *)
(* exactly the first occurrence of each distinct id, in input order; every *)
(* later occurrence of an id already seen is dropped.                      *)
C1_FirstOccurrenceKept ==
    called \in {"dedup", "dedup2"} =>
        AtPositions(output, NonEmptyIdPositions(output), 1)
            = AtPositions(input, FirstOccurrencePositions(input), 1)

C1_Witness ==
    /\ called = "dedup"
    /\ HasRepeatedId(input)
    /\ Len(output) = 2
    /\ input[1].id = input[3].id
    /\ input[1].content # input[3].content
    /\ output = <<input[1], input[2]>>

(* C2: every mention whose id is empty appears in the de-duplicator's      *)
(* output, each one kept (none merged with another empty-id mention).      *)
C2_EmptyIdKept ==
    called \in {"dedup", "dedup2"} =>
        AtPositions(output, EmptyIdPositions(output), 1)
            = AtPositions(input, EmptyIdPositions(input), 1)

(* C4: the de-duplicator is idempotent: applied to its own output it       *)
(* returns that output unchanged (same elements, same order).              *)
C4_Idempotent ==
    called = "dedup2" => output2 = output

C4_Witness ==
    /\ called = "dedup2"
    /\ HasRepeatedId(input)
    /\ EmptyIdPositions(input) # {}
    /\ output # <<>>
    /\ output2 = output

----------------------------------------------------------------------------
(* The raw engagement counters of the record being normalised.             *)

RawCounter(key) ==
    CASE input.src = "bluesky" ->
             input.rec[CASE key = "like" -> "likeCount"
                         [] key = "share" -> "repostCount"
                         [] key = "reply" -> "replyCount"]
      [] input.src = "twitter" ->
             IF input.rec.public_metrics.st = "ok"
             THEN input.rec.public_metrics.v[CASE key = "like" -> "like_count"
                                               [] key = "share" -> "retweet_count"
                                               [] key = "reply" -> "reply_count"]
             ELSE Absent(0)
      [] OTHER ->
             IF key = "like" THEN input.rec.score ELSE Absent(0)

\* a counter that is absent from the raw record counts as 0
CountOrZero(c) == IF c.st = "absent" THEN 0 ELSE c.v

HasNegativeCounter ==
    \E key \in {"like", "share"} :
        RawCounter(key).st = "ok" /\ RawCounter(key).v < 0

(* C9 as stated: every mention produced by a record normaliser has         *)
(* score >= 0, even when raw engagement counters are negative or missing.  *)
C9_ScoreNonNegative ==
    called = "normalized" => output.score >= 0

(* C9 amended: a normalised mention has score >= 0 whenever no raw         *)
(* engagement counter of the record is negative (a missing counter counts  *)
(* as 0); a negative score only comes from a negative raw counter.         *)
C9_ScoreNonNegativeUnlessRawNegative ==
    called = "normalized" => (output.score < 0 => HasNegativeCounter)

C9_Witness ==
    /\ called = "normalized"
    /\ input.src = "bluesky"
    /\ input.rec.likeCount.st = "absent"
    /\ input.rec.repostCount = Some(2)
    /\ output.score = 2

(* C10: for microblog and decentralized-social records the score is the    *)
(* like counter plus the repost/share counter and num_comments is the      *)
(* reply counter, a counter absent from the raw record counting as 0.      *)
C10_ScoreComposition ==
    (called = "normalized" /\ input.src \in {"bluesky", "twitter"}) =>
        /\ output.score = CountOrZero(RawCounter("like")) + CountOrZero(RawCounter("share"))
        /\ output.num_comments =
               IF RawCounter("reply").st = "absent" THEN Some(0) ELSE RawCounter("reply")

C10_Witness ==
    /\ called = "normalized"
    /\ input.src = "bluesky"
    /\ input.rec.likeCount = Some(3)
    /\ input.rec.repostCount = Some(2)
    /\ input.rec.replyCount.st = "absent"
    /\ output.score = 5
    /\ output.num_comments = Some(0)

----------------------------------------------------------------------------
(* C3: in the list collect_mentions hands on, no two mentions share the    *)
(* same non-empty id, de-duplication covering the concatenation of the     *)
(* mentions of all sources.                                                *)
C3_CollectedIdsDistinct ==
    called = "collected" => ~HasRepeatedId(output)

----------------------------------------------------------------------------
(* The records one search reads, in the order it reads them. time is the   *)
(* record's own timestamp, parent that of the post a forum comment hangs   *)
(* under (the record's own elsewhere), kw the index of the keyword the     *)
(* record was returned for (0 when any configured keyword may match).      *)

Keywords == input.config.keywords
Cutoff == input.config.now - input.config.hours_back

RECURSIVE Flatten(_)
Flatten(ss) == IF ss = <<>> THEN <<>> ELSE Head(ss) \o Flatten(Tail(ss))

StampOf(opt) == IF opt.st = "ok" THEN Naive(opt.v) ELSE NoTime

RedditRecordsOf(answer) ==
    [j \in 1..Len(answer.new) |->
        [id |-> answer.new[j].id, type |-> "post",
         text |-> answer.new[j].title \o <<" ">> \o answer.new[j].selftext,
         time |-> StampOf(answer.new[j].created_utc),
         parent |-> StampOf(answer.new[j].created_utc), kw |-> 0]]
    \o Flatten([h \in 1..Len(answer.hot) |->
        [c \in 1..Len(answer.hot[h].comments) |->
            [id |-> answer.hot[h].comments[c].id, type |-> "comment",
             text |-> answer.hot[h].comments[c].body,
             time |-> StampOf(answer.hot[h].comments[c].created_utc),
             parent |-> StampOf(answer.hot[h].post.created_utc), kw |-> 0]]])

RecordsRead ==
    CASE input.src = "reddit" ->
             Flatten([i \in 1..Len(input.subreddits) |->
                         RedditRecordsOf(input.answers[i])])
      [] input.src = "twitter" ->
             [j \in 1..Len(input.answers.tweets) |->
                 [id |-> input.answers.tweets[j].id, type |-> "tweet",
                  text |-> input.answers.tweets[j].text,
                  time |-> input.answers.tweets[j].created_at,
                  parent |-> input.answers.tweets[j].created_at, kw |-> 0]]
      [] input.src = "bluesky" ->
             Flatten([i \in 1..Len(Keywords) |->
                 [j \in 1..Len(input.answers[i]) |->
                     [id |-> IF input.answers[i][j].cid # ""
                             THEN input.answers[i][j].cid
                             ELSE input.answers[i][j].uri,
                      type |-> "post",
                      text |-> input.answers[i][j].text,
                      time |-> input.answers[i][j].createdAt,
                      parent |-> input.answers[i][j].createdAt, kw |-> i]]])

\* keyword k is a case-insensitive substring of the text
KeywordIn(k, text) == Contains(Lower(Keywords[k]), Lower(text))

RecordMatches(r) ==
    IF r.kw = 0 THEN \E k \in 1..Len(Keywords) : KeywordIn(k, r.text)
    ELSE KeywordIn(r.kw, r.text)

\* the first keyword, in configured order, that is in the text
CreditedKeyword(text) ==
    Keywords[CHOOSE k \in 1..Len(Keywords) :
                 KeywordIn(k, text) /\ \A j \in 1..(k - 1) : ~KeywordIn(j, text)]

Unstamped(r) == r.time.kind = "none"
AtOrAfterCutoff(r) == r.time.kind # "none" /\ r.time.t >= Cutoff

\* some mention of the output stands for record r
Mentioned(r) ==
    \E i \in 1..Len(output) :
        /\ output[i].id = r.id
        /\ output[i].type = r.type
        /\ ~Unstamped(r) => output[i].created_utc.t = r.time.t

\* every listing the search asks for is delivered
FetchesSucceed ==
    CASE input.src = "reddit" ->
             \A i \in 1..Len(input.subreddits) : input.answers[i].fails = "no"
      [] input.src = "twitter" -> ~input.answers.fails
      [] OTHER -> TRUE

NoEmptyKeyword == \A k \in 1..Len(Keywords) : Keywords[k] # <<>>

\* every record read has an id of its own
IdsDistinct ==
    \A p, q \in 1..Len(RecordsRead) :
        /\ RecordsRead[p].id # ""
        /\ p # q => RecordsRead[p].id # RecordsRead[q].id

AllStamped ==
    \A p \in 1..Len(RecordsRead) :
        RecordsRead[p].time.kind # "none" /\ RecordsRead[p].parent.kind # "none"

NoneAware == \A p \in 1..Len(RecordsRead) : RecordsRead[p].time.kind # "aware"

ParentsRecent ==
    \A p \in 1..Len(RecordsRead) :
        RecordsRead[p].parent.kind # "none" => RecordsRead[p].parent.t >= Cutoff

----------------------------------------------------------------------------
(* C5: the keyword_matched of every mention is one of the configured       *)
(* keywords and is not empty, whatever the KEYWORDS setting (empty or      *)
(* ending in a comma included).                                            *)
C5_KeywordConfiguredNonEmpty ==
    called \in {"reddit", "twitter", "bluesky"} =>
        \A i \in 1..Len(output) :
            /\ output[i].keyword_matched # <<>>
            /\ \E k \in 1..Len(Keywords) : Keywords[k] = output[i].keyword_matched

(* C6: forum posts, forum comments and microblog posts give at most one    *)
(* mention per processed record, exactly when some configured keyword is   *)
(* a case-insensitive substring of the record's text, and the mention      *)
(* carries the first such keyword in configured order.                     *)
C6_FirstKeywordPerRecord ==
    (called \in {"reddit", "twitter"} /\ FetchesSucceed
        /\ (called = "reddit" => AllStamped /\ ParentsRecent)) =>
        LET expected ==
                AtPositions(RecordsRead,
                            {p \in 1..Len(RecordsRead) :
                                /\ Unstamped(RecordsRead[p])
                                       \/ AtOrAfterCutoff(RecordsRead[p])
                                /\ RecordMatches(RecordsRead[p])}, 1)
        IN  /\ Len(output) = Len(expected)
            /\ \A n \in 1..Len(expected) :
                   /\ output[n].id = expected[n].id
                   /\ output[n].type = expected[n].type
                   /\ output[n].keyword_matched = CreditedKeyword(expected[n].text)

(* C7: a record with a parsable timestamp passes the time filter exactly   *)
(* when its own timestamp is at or after the cutoff (now minus             *)
(* hours_back); for a forum comment the comment's own timestamp decides,   *)
(* whatever the age of the post it hangs under.                            *)
C7_OwnTimestampDecides ==
    (called \in {"reddit", "twitter", "bluesky"} /\ FetchesSucceed
        /\ NoEmptyKeyword /\ IdsDistinct /\ AllStamped) =>
        \A p \in 1..Len(RecordsRead) :
            RecordMatches(RecordsRead[p]) =>
                (Mentioned(RecordsRead[p]) <=> AtOrAfterCutoff(RecordsRead[p]))

(* C8: in every source a record whose timestamp is missing or unparsable   *)
(* is not discarded by the time filter, and its presence does not cause    *)
(* other records to be dropped.                                            *)
C8_UnstampedKept ==
    (called \in {"reddit", "twitter", "bluesky"} /\ FetchesSucceed
        /\ NoEmptyKeyword /\ IdsDistinct /\ NoneAware /\ ParentsRecent) =>
        \A p \in 1..Len(RecordsRead) :
            (/\ RecordMatches(RecordsRead[p])
             /\ Unstamped(RecordsRead[p]) \/ AtOrAfterCutoff(RecordsRead[p]))
                => Mentioned(RecordsRead[p])

----------------------------------------------------------------------------
(* C11: no record normaliser raises: whatever fields of the raw record are *)
(* absent or null (author, metrics, timestamp, identifier), it returns a   *)
(* mention.                                                                *)
C11_NormalizationNeverRaises ==
    called # "raised"

(* C12: in each of the three analysers the label is the same function of   *)
(* the polarity: positive exactly above 0.1, negative exactly below -0.1,  *)
(* neutral otherwise, so 0.1 and -0.1 themselves are neutral.              *)
C12_LabelThresholds ==
    called = "analyzed" =>
        /\ output.label = "positive" <=> output.polarity > 10000
        /\ output.label = "negative" <=> output.polarity < -10000
        /\ output.label = "neutral" <=>
               (output.polarity >= -10000 /\ output.polarity <= 10000)

C12_Witness ==
    /\ called = "analyzed"
    /\ input.src = "twitter"
    /\ output.scorer_called
    /\ output.polarity = 10000
    /\ output.label = "neutral"

(* C13: for an empty or whitespace-only text every analyser returns        *)
(* polarity 0 and label neutral without calling the scorer, and the scorer *)
(* is called only for a text with a non-whitespace character.              *)
C13_BlankTextShortcut ==
    called = "analyzed" =>
        LET blank == \A i \in 1..Len(input.text) : input.text[i] \in {" ", "\t", "\n"}
        IN  /\ output.scorer_called <=> ~blank
            /\ blank => (output.polarity = 0 /\ output.label = "neutral")

C13_Witness ==
    /\ called = "analyzed"
    /\ input.src = "reddit"
    /\ input.text = <<" ", "\t">>
    /\ input.scored = 10001
    /\ ~output.scorer_called
    /\ output.polarity = 0
    /\ output.label = "neutral"

----------------------------------------------------------------------------
\* the place of the mention at position j in the ranking: behind every
\* mention of greater score and every earlier mention of equal score
RankOf(mentions, j) ==
    1 + Cardinality({k \in 1..Len(mentions) :
                        \/ mentions[k].score > mentions[j].score
                        \/ mentions[k].score = mentions[j].score /\ k < j})

(* C14: for a limit N >= 0 get_top_mentions returns the first              *)
(* min(N, length) mentions of the list ordered by descending score,        *)
(* mentions of equal score keeping their original relative order; no       *)
(* returned mention has a lower score than an omitted one.                 *)
C14_StableTopN ==
    (called = "ranked" /\ input.limit >= 0) =>
        LET n == Min(input.limit, Len(input.mentions))
        IN  /\ Len(output) = n
            /\ \A j \in 1..Len(input.mentions) :
                   RankOf(input.mentions, j) <= n
                       => output[RankOf(input.mentions, j)] = input.mentions[j]

C14_Witness ==
    /\ called = "ranked"
    /\ input.limit = 2
    /\ Len(input.mentions) = 3
    /\ input.mentions[1].score = 0
    /\ input.mentions[2].score = 0
    /\ input.mentions[3].score = 2
    /\ input.mentions[1].id # input.mentions[2].id
    /\ output = <<input.mentions[3], input.mentions[1]>>

----------------------------------------------------------------------------
(* C15: the summary of zero mentions has total = 0 and                     *)
(* average_sentiment = 0, and computing it divides nothing by zero.        *)
C15_EmptySummary ==
    (called = "summarized" /\ input = <<>>) =>
        /\ output.total = 0
        /\ output.average_sentiment.st = "ok"
        /\ output.average_sentiment.v.num = 0
        /\ output.average_sentiment.v.den # 0

----------------------------------------------------------------------------
\* the mentions of the run that carry the label
Labelled(label) ==
    {i \in 1..Len(output.results.mentions) :
        output.results.mentions[i].sentiment_label = label}

(* C16: a run that completes exits with 1 when more mentions are labelled  *)
(* negative than positive and with 0 otherwise (equal counts and no        *)
(* mentions included); that exit is never turned into exit code 2.         *)
C16_ExitCodeBySentiment ==
    (called = "exited" /\ output.completed) =>
        output.exit_code =
            IF Cardinality(Labelled("negative")) > Cardinality(Labelled("positive"))
            THEN 1 ELSE 0

C16_Witness ==
    /\ called = "exited"
    /\ output.completed
    /\ Len(output.results.mentions) = 2
    /\ Cardinality(Labelled("negative")) = 1
    /\ Cardinality(Labelled("positive")) = 0
    /\ output.exit_code = 1

(* C17: when collaborators fail to initialise at startup and no source is  *)
(* left usable, the process exits with code 2, not with 0 and an empty     *)
(* report.                                                                 *)
C17_NoSourceExitsTwo ==
    (/\ called = "exited"
     /\ "fails" \in {input.env.reddit, input.env.twitter, input.env.bluesky}
     /\ "ok" \notin {input.env.reddit, input.env.twitter, input.env.bluesky})
        => output.exit_code = 2

----------------------------------------------------------------------------
\* the units of a source, in configured order, when its monitor is set up
UnitsOf(src, enabled, n) ==
    IF enabled THEN [i \in 1..n |-> [src |-> src, unit |-> i]] ELSE <<>>

ExpectedUnits ==
    UnitsOf("reddit", input.bot.reddit_monitor, Len(input.bot.subreddits))
        \o UnitsOf("twitter", input.bot.twitter_monitor, 1)
        \o UnitsOf("bluesky", input.bot.bluesky_monitor, Len(input.bot.keywords))

IsPrefix(s, t) == Len(s) <= Len(t) /\ SubSeq(t, 1, Len(s)) = s

SomeUnitFails ==
    \/ \E i \in 1..Len(input.bot.subreddits) :
           input.bot.reddit_monitor /\ RedditUnitFails(input.world.reddit[i])
    \/ input.bot.twitter_monitor /\ TwitterUnitFails(input.world.twitter)
    \/ \E i \in 1..Len(input.bot.keywords) :
           input.bot.bluesky_monitor /\ BlueskyUnitFails(i)

(* C18: in one collect_mentions run every unit of every enabled source     *)
(* (subreddit, twitter query, bluesky keyword) is attempted exactly once,  *)
(* in configured order, whether or not an earlier unit failed; no step     *)
(* removes mentions already collected, and the run ends with the list      *)
(* collect_mentions returns, no failure leaving it.                        *)
C18_EveryUnitOnceInOrder ==
    /\ [](IsPrefix(output2, ExpectedUnits))
    /\ [](called = "collected" =>
             /\ output2 = ExpectedUnits
             /\ output.all_mentions =
                    collect_mentions(input.bot, input.hours_back, input.now, input.world))
    /\ [][/\ IsPrefix(output.all_mentions, output'.all_mentions)
          /\ called' = called => IsPrefix(output.mentions, output'.mentions)]_vars

C18_Witness ==
    /\ called = "collected"
    /\ input.bot.reddit_monitor
    /\ Len(input.bot.subreddits) = 2
    /\ RedditUnitFails(input.world.reddit[1])
    /\ input.bot.bluesky_monitor
    /\ Len(input.bot.keywords) = 2
    /\ BlueskyUnitFails(1)
    /\ Len(output2) >= 4
    /\ Len(output.all_mentions) = 1
    /\ output.all_mentions[1].platform = "reddit"

----------------------------------------------------------------------------
\* record r is in the window and nothing fails while it is processed
ProcessedCleanly(r) ==
    CASE input.src = "twitter" -> TRUE
      [] input.src = "bluesky" ->
             r.time.kind = "none" \/ (r.time.kind = "naive" /\ r.time.t >= Cutoff)
      [] OTHER ->
             /\ r.time.kind = "naive" /\ r.time.t >= Cutoff
             /\ r.parent.kind = "naive" /\ r.parent.t >= Cutoff

(* C19: a failure while one record is processed stays with that record:    *)
(* every other record of the same subreddit, keyword batch or tweet result *)
(* set that is in the window and matches a keyword becomes a mention.      *)
C19_RecordFailureContained ==
    (called \in {"reddit", "twitter", "bluesky"} /\ FetchesSucceed
        /\ NoEmptyKeyword /\ IdsDistinct) =>
        \A p \in 1..Len(RecordsRead) :
            (ProcessedCleanly(RecordsRead[p]) /\ RecordMatches(RecordsRead[p]))
                => Mentioned(RecordsRead[p])

----------------------------------------------------------------------------
\* a bluesky record passes the time filter and contains the keyword it was
\* returned for
PassesTimeFilter(r) == r.time.kind = "none" \/ r.time.t >= Cutoff

QualifyingPositions ==
    {p \in 1..Len(RecordsRead) :
        /\ PassesTimeFilter(RecordsRead[p])
        /\ KeywordIn(RecordsRead[p].kw, RecordsRead[p].text)}

\* the first qualifying (keyword, record) pair with the id of the record at p
FirstQualifying(p) ==
    CHOOSE q \in QualifyingPositions :
        /\ RecordsRead[q].id = RecordsRead[p].id
        /\ \A q2 \in QualifyingPositions :
               RecordsRead[q2].id = RecordsRead[p].id => q <= q2

(* C20: in bluesky each record returned for keyword k that passes the time *)
(* filter and contains k gives exactly one candidate credited to k, one    *)
(* per (record, keyword) pair; after de-duplication the record appears     *)
(* exactly once in the output, credited to the first configured keyword    *)
(* it was matched for.                                                     *)
C20_OneCandidatePerKeyword ==
    called = "bluesky" =>
        LET expected == AtPositions(RecordsRead, QualifyingPositions, 1)
            candidates == BlueskyCandidates(Keywords, input.config.hours_back,
                                            input.config.now, input.answers)
        IN  /\ Len(candidates) = Len(expected)
            /\ \A n \in 1..Len(expected) :
                   /\ candidates[n].id = expected[n].id
                   /\ candidates[n].keyword_matched = Keywords[expected[n].kw]
            /\ \A p \in QualifyingPositions :
                   /\ Cardinality({i \in 1..Len(output) :
                                      output[i].id = RecordsRead[p].id}) = 1
                   /\ \A i \in 1..Len(output) :
                          output[i].id = RecordsRead[p].id =>
                              output[i].keyword_matched
                                  = Keywords[RecordsRead[FirstQualifying(p)].kw]

----------------------------------------------------------------------------
\* the positions of the summarised list carrying the label
WithLabel(label) == {i \in 1..Len(input) : input[i].sentiment_label = label}

RECURSIVE PolaritySum(_)
PolaritySum(I) ==
    IF I = {} THEN 0
    ELSE LET i == CHOOSE x \in I : TRUE
         IN  input[i].sentiment_score + PolaritySum(I \ {i})

\* quotient q equals num / den
EqualsRatio(q, num, den) == q.den # 0 /\ den # 0 /\ q.num * den = num * q.den

\* the summary's entry for the key, Absent when the dict has no such key
SummaryEntry(key) ==
    IF key \in DOMAIN output THEN output[key] ELSE Absent(Quotient(0, 1))

SummaryCountsAndMean ==
    /\ output.positive = Cardinality(WithLabel("positive"))
    /\ output.negative = Cardinality(WithLabel("negative"))
    /\ output.neutral = Cardinality(WithLabel("neutral"))
    /\ output.positive + output.negative + output.neutral = output.total
    /\ output.total = Len(input)
    /\ output.average_sentiment.st = "ok"
    /\ EqualsRatio(output.average_sentiment.v, PolaritySum(1..Len(input)), Len(input))

PercentageSupplied(label) ==
    /\ SummaryEntry(label \o "_percentage").st = "ok"
    /\ EqualsRatio(SummaryEntry(label \o "_percentage").v,
                   Cardinality(WithLabel(label)) * 100, Len(input))

(* C21 as stated: for a non-empty list the summary's three counts are the  *)
(* numbers of mentions with each label and sum to total, average_sentiment *)
(* is the mean polarity, and the summary supplies for each of the three    *)
(* labels a percentage equal to count / total x 100.                       *)
C21_SummaryWithThreePercentages ==
    (called = "summarized" /\ input # <<>>) =>
        /\ SummaryCountsAndMean
        /\ \A label \in {"positive", "negative", "neutral"} : PercentageSupplied(label)

(* C21 amended: the counts, their sum and the mean are as stated; the      *)
(* summary supplies the percentage of the positive and of the negative     *)
(* label only, and the neutral percentage, which the summary does not      *)
(* hold, is what the report derives as 100 minus the other two, equal to   *)
(* neutral count / total x 100.                                            *)
C21_SummaryWithTwoPercentages ==
    (called = "summarized" /\ input # <<>>) =>
        /\ SummaryCountsAndMean
        /\ PercentageSupplied("positive")
        /\ PercentageSupplied("negative")
        /\ SummaryEntry("neutral_percentage").st = "absent"
        /\ EqualsRatio(ReportNeutralPercentage(output),
                       Cardinality(WithLabel("neutral")) * 100, Len(input))

C21_Witness ==
    /\ called = "summarized"
    /\ Len(input) = 3
    /\ output.positive = 1
    /\ output.negative = 1
    /\ output.neutral = 1
    /\ output.average_sentiment.v = Quotient(-10000, 3)
    /\ output.positive_percentage.v = Quotient(100, 3)
    /\ ReportNeutralPercentage(output) = Quotient(100, 3)

----------------------------------------------------------------------------
(* Author fallback                                                         *)

\* the user data the service returned along with the tweets
ReturnedUsers == input.answers.users

\* the tweet's author is the synthesized handle exactly when no user data
\* came back for it, and the returned handle otherwise
TweetAuthorFrom(mention, tweet) ==
    /\ (mention.author = "user_" \o tweet.author_id)
           <=> tweet.author_id \notin DOMAIN ReturnedUsers
    /\ tweet.author_id \in DOMAIN ReturnedUsers
           => mention.author = ReturnedUsers[tweet.author_id]

\* the forum mention's author is the sentinel exactly when the record has
\* no author, and the record's author otherwise
RedditAuthorFrom(mention, rec) ==
    /\ (mention.author = "[deleted]") <=> rec.author.st # "ok"
    /\ rec.author.st = "ok" => mention.author = rec.author.v

TwitterAuthorsFromRecords ==
    \A i \in 1..Len(output) : \A j \in 1..Len(input.answers.tweets) :
        input.answers.tweets[j].id = output[i].id
            => TweetAuthorFrom(output[i], input.answers.tweets[j])

RedditAuthorsFromRecords ==
    \A i \in 1..Len(output) : \A s \in 1..Len(input.subreddits) :
        /\ \A j \in 1..Len(input.answers[s].new) :
               (output[i].type = "post" /\ input.answers[s].new[j].id = output[i].id)
                   => RedditAuthorFrom(output[i], input.answers[s].new[j])
        /\ \A h \in 1..Len(input.answers[s].hot) :
               \A c \in 1..Len(input.answers[s].hot[h].comments) :
                   (output[i].type = "comment"
                        /\ input.answers[s].hot[h].comments[c].id = output[i].id)
                       => RedditAuthorFrom(output[i], input.answers[s].hot[h].comments[c])

(* C22: the author fallback is used only when the raw record carries no    *)
(* author: a forum mention's author is "[deleted]" exactly when its record *)
(* has no author, a microblog mention's author is user_<author id> exactly *)
(* when the service returned no user data for the tweet's author, and a    *)
(* supplied author is the one the mention carries.                         *)
C22_FallbackOnlyWithoutAuthor ==
    /\ called = "reddit" => RedditAuthorsFromRecords
    /\ called = "twitter" => TwitterAuthorsFromRecords

====
